---- MODULE Spec2Model ----
(***************************************************************************)
(* Model of live_banknifty.py: the ledger file, the trade log and the      *)
(* steps of run_live_options_trader (load, fetch, expiry exit, signal      *)
(* entry, save).                                                           *)
(*                                                                         *)
(* Money is in rupees and held as integers.  The two allocation factors    *)
(* and the two strike ratios are exact fractions [num, den]; the quoted    *)
(* prices of the model are even, so that every product the code forms is   *)
(* a whole number and no division below truncates.                         *)
(*                                                                         *)
(* A point in time is a calendar day number and a time of day (tod); tod 0 *)
(* is midnight.  Three Python types carry one: pandas.Timestamp,           *)
(* datetime.datetime and str (the ISO text json stores).                   *)
(***************************************************************************)
EXTENDS Integers, Sequences, FiniteSets, TLC

VARIABLES
    file,        \* content of state_file (line 10)
    log,         \* records of trade_log_file (line 11), oldest first
    clock,       \* calendar day of the latest bar the market feed has served
    runs,        \* invocations of run_live_options_trader so far
    pc,          \* per invocation: where the run stands
    portfolio,   \* per invocation: the dict portfolio (lines 91, 194-195)
    cash,        \* per invocation: the local cash (line 92)
    holdings,    \* per invocation: the local holdings (line 93)
    df,          \* per invocation: underlying_df after dropna and its latest bar
    transitions, \* per invocation: the transitions computed so far, in order
    outcome,     \* per invocation: how the entry evaluation of lines 134-191 ended
    before       \* per invocation: state_file and trade log as the run found them,
                 \* and whether every run so far started after all others returned

vars == <<file, log, clock, runs, pc, portfolio, cash, holdings, df, transitions, outcome, before>>

------------------------------------------------------------------------------
(* Bounds of the model *)

\* number of invocations of run_live_options_trader
MaxRuns == 2
\* calendar days of the market feed: 0..MaxDay
MaxDay == 1
\* bars left in the snapshot after dropna: 0..MaxBars
MaxBars == 2

------------------------------------------------------------------------------
(* USER PARAMETERS *)

lot_size == 15
brokerage_per_leg == 20
vix_filter_threshold == 20
allocation_calm == [num |-> 1, den |-> 1]
allocation_fear == [num |-> 1, den |-> 2]
sell_strike_moneyness == [num |-> 98, den |-> 100]
spread_width_pct == [num |-> 1, den |-> 100]
max_dte == 7

\* x * m for a fraction m
Times(x, m) == (x * m.num) \div m.den

------------------------------------------------------------------------------
(* Python values *)

None == [type |-> "NoneType"]
Timestamp(d, t) == [type |-> "Timestamp", day |-> d, tod |-> t]
datetime(d, t) == [type |-> "datetime", day |-> d, tod |-> t]
str(d, t) == [type |-> "str", day |-> d, tod |-> t]

\* an ISO text that keeps the date and drops the time of day
isoformat_date_only(ts) == str(ts.day, 0)
\* pd.Timestamp.isoformat
isoformat(ts) == str(ts.day, ts.tod)
\* pd.to_datetime of ISO text; pd.to_datetime(None) is None
to_datetime(s) == IF s.type = "NoneType" THEN s ELSE Timestamp(s.day, s.tod)
\* dt.datetime.strptime(exp, '%Y-%m-%d'): an expiry string is its day number
strptime(exp) == datetime(exp, 0)
\* (a - b).days of the timedelta a - b: whole days, rounded down
days(a, b) == (a.day - b.day) - (IF a.tod < b.tod THEN 1 ELSE 0)

HoldingsKeys == {"entry_date", "expiry", "sell_strike", "buy_strike", "credit_received"}
Keys(h) == DOMAIN h \ {"type"}

------------------------------------------------------------------------------
(* The ledger file (state_file) *)

Missing == [kind |-> "missing"]
Empty == [kind |-> "empty"]
\* text that json.load rejects, such as the prefix of an interrupted dump
Partial == [kind |-> "partial"]
Number(n) == [type |-> "number", v |-> n]
\* a JSON string that is neither a number nor a date
String == [type |-> "string"]
\* a key the JSON object does not have: dict.get gives None
Absent == [type |-> "absent"]
\* JSON text whose top-level value is not an object (a list, a number, null)
NonObject == [kind |-> "non-object"]
Json(c, h) == [kind |-> "json", cash |-> c, holdings |-> h]

\* line 40
default_cash == 100000
default_state == [cash |-> default_cash, holdings |-> None]

\* load_state with the completeness test of line 48 left out: any dict is kept
load_state_keeps_partial(f) ==
    IF f.kind # "json" THEN default_state
    ELSE [cash |-> IF f.cash.type = "number" THEN f.cash.v ELSE default_state.cash,
          holdings |-> IF f.holdings.type = "dict"
                       THEN [f.holdings EXCEPT !.entry_date = to_datetime(@),
                                               !.expiry = to_datetime(@)]
                       ELSE None]

\* load_state
load_state(f) ==
    IF f.kind \in {"missing", "empty"} THEN default_state
    ELSE IF f.kind # "json" THEN default_state
    ELSE LET h == f.holdings
             complete == h.type = "dict" /\ Keys(h) # {} /\ HoldingsKeys \subseteq Keys(h)
             \* lines 49-50: pd.to_datetime raises on text that is no date
             raises == complete /\ (h.entry_date = String \/ h.expiry = String)
         IN IF raises THEN default_state
            ELSE [cash |-> IF f.cash.type = "number" THEN f.cash.v ELSE default_state.cash,
                  holdings |-> IF complete
                               THEN [h EXCEPT !.entry_date = to_datetime(@),
                                              !.expiry = to_datetime(@)]
                               ELSE None]

\* save_state, lines 65-73: the copy that is handed to json.dump
state_to_save(state) ==
    LET h == state.holdings IN
    IF h.type = "dict" /\ Keys(h) # {}
    THEN [state EXCEPT !.holdings =
            [h EXCEPT !.entry_date = IF @.type = "Timestamp" THEN isoformat(@) ELSE @,
                      !.expiry = IF @.type = "Timestamp" THEN isoformat(@) ELSE @]]
    ELSE state

\* json.dump raises TypeError on a value that is no JSON type
serializable(s) ==
    LET h == s.holdings IN
    h.type = "dict" => /\ h.entry_date.type = "str"
                       /\ h.expiry.type = "str"

\* the text json.dump writes for a serializable state
dumps(s) == Json(Number(s.cash), s.holdings)

\* how the texts of the ledger compare in length: nothing, a FLAT portfolio,
\* the prefix an interrupted dump of an OPEN portfolio leaves, an OPEN
\* portfolio (the cash amounts of the model have the same number of digits)
TextLength(f) ==
    IF f.kind \in {"missing", "empty"} THEN 0
    ELSE IF f.kind # "json" THEN 2
    ELSE IF f.holdings.type = "dict" THEN 3 ELSE 1
\* lines 74-75: the text goes to the start of the file opened at line 74.
\* Where another writer has put a longer text there since, its tail stays
\* behind the new text and json.load rejects the mix.
write_at_start(text, existing) ==
    IF TextLength(existing) > TextLength(text) THEN Partial ELSE text

------------------------------------------------------------------------------
(* Initial states *)

Procs == DOMAIN pc

NoData == [rows |-> << >>, today |-> Timestamp(0, 0), close |-> 0, vix_close |-> 0]

\* ledgers an earlier run, another version or the operator may have left
StoredPosition ==
    [type |-> "dict", entry_date |-> str(0, 1), expiry |-> str(1, 0),
     sell_strike |-> 48000, buy_strike |-> 47500, credit_received |-> 1200]
Without(h, key) == [k \in DOMAIN h \ {key} |-> h[k]]

InitialFiles ==
    { Missing, Empty, Partial,
      Json(Number(default_cash), None),
      Json(Number(default_cash), StoredPosition),
      Json(Number(default_cash - 10000), Without(StoredPosition, "credit_received")),
      Json(String, Without(StoredPosition, "credit_received")) }

InitFor(P) ==
    /\ file \in InitialFiles
    /\ log = << >>
    /\ clock = 0
    /\ runs = 0
    /\ pc = [p \in P |-> "idle"]
    /\ portfolio = [p \in P |-> default_state]
    /\ cash = [p \in P |-> default_state.cash]
    /\ holdings = [p \in P |-> None]
    /\ df = [p \in P |-> NoData]
    /\ transitions = [p \in P |-> << >>]
    /\ outcome = [p \in P |-> "none"]
    /\ before = [p \in P |-> [file |-> file, log |-> log, serial |-> TRUE]]

Init == InitFor({1})

Returned == {"idle", "done", "aborted", "crashed"}

\* lines 88-93: a run starts once every earlier run has returned
Load(p) ==
    /\ pc[p] \in Returned
    /\ \A q \in Procs : pc[q] \in Returned
    /\ runs < MaxRuns
    /\ runs' = runs + 1
    /\ LET state == load_state(file) IN
        /\ portfolio' = [portfolio EXCEPT ![p] = state]
        /\ cash' = [cash EXCEPT ![p] = state.cash]
        /\ holdings' = [holdings EXCEPT ![p] = state.holdings]
    /\ df' = [df EXCEPT ![p] = NoData]
    /\ transitions' = [transitions EXCEPT ![p] = << >>]
    /\ outcome' = [outcome EXCEPT ![p] = "none"]
    /\ before' = [before EXCEPT ![p] = [file |-> file, log |-> log,
                                        serial |-> \A q \in Procs : before[q].serial]]
    /\ pc' = [pc EXCEPT ![p] = "fetch"]
    /\ UNCHANGED <<file, log, clock>>

\* lines 88-93: a run starts while another invocation is still running
LoadOverlapping(p) ==
    /\ pc[p] \in Returned
    /\ \E q \in Procs : pc[q] \notin Returned
    /\ runs < MaxRuns
    /\ runs' = runs + 1
    /\ LET state == load_state(file) IN
        /\ portfolio' = [portfolio EXCEPT ![p] = state]
        /\ cash' = [cash EXCEPT ![p] = state.cash]
        /\ holdings' = [holdings EXCEPT ![p] = state.holdings]
    /\ df' = [df EXCEPT ![p] = NoData]
    /\ transitions' = [transitions EXCEPT ![p] = << >>]
    /\ outcome' = [outcome EXCEPT ![p] = "none"]
    /\ before' = [before EXCEPT ![p] = [file |-> file, log |-> log, serial |-> FALSE]]
    /\ pc' = [pc EXCEPT ![p] = "fetch"]
    /\ UNCHANGED <<file, log, clock>>

------------------------------------------------------------------------------
(* Market data *)

\* a short average below, at and above the long average
Rows == [short_ma : {1, 2, 3}, long_ma : {2}]
\* the snapshots left by dropna, oldest bar first
Snapshots == UNION {[1..n -> Rows] : n \in 0..MaxBars}
\* 15-minute bars carry a time of day inside the trading session, never midnight
BarTods == {1}
Closes == {100, 48980}
VixLevels == {15, 20}

\* lines 98-118 without the return of line 118: the failed run still writes
\* the ledger
FetchFail_then_save(p) ==
    /\ pc[p] = "fetch"
    /\ file' = dumps(state_to_save(portfolio[p]))
    /\ pc' = [pc EXCEPT ![p] = "aborted"]
    /\ UNCHANGED <<log, clock, runs, portfolio, cash, holdings, df, transitions, outcome, before>>

\* lines 98-118: a download raises or comes back empty; the run returns
FetchFail(p) ==
    /\ pc[p] = "fetch"
    /\ pc' = [pc EXCEPT ![p] = "aborted"]
    /\ UNCHANGED <<file, log, clock, runs, portfolio, cash, holdings, df, transitions, outcome, before>>

\* lines 98-124 with too little history: dropna leaves no row and
\* underlying_df.index[-1] raises IndexError out of the run
FetchShort(p) ==
    /\ pc[p] = "fetch"
    /\ pc' = [pc EXCEPT ![p] = "crashed"]
    /\ UNCHANGED <<file, log, clock, runs, portfolio, cash, holdings, df, transitions, outcome, before>>

\* lines 98-124
FetchOk(p) ==
    /\ pc[p] = "fetch"
    /\ \E rows \in Snapshots \ {<< >>}, d \in clock..MaxDay, t \in BarTods,
          c \in Closes, v \in VixLevels :
        /\ df' = [df EXCEPT ![p] = [rows |-> rows, today |-> Timestamp(d, t),
                                    close |-> c, vix_close |-> v]]
        /\ clock' = d
    /\ pc' = [pc EXCEPT ![p] = "exit"]
    /\ UNCHANGED <<file, log, runs, portfolio, cash, holdings, transitions, outcome, before>>

------------------------------------------------------------------------------
(* Trade log *)

\* log_trade when the workbook is written
log_trade(l, trade_record) == Append(l, trade_record)

------------------------------------------------------------------------------
(* Step 1: expiry exit, lines 126-132 *)

\* line 127
expiring(today, h) == today.day >= h.expiry.day
\* line 129 with one leg charged instead of two
expiry_pnl_one_leg(h) == h.credit_received - brokerage_per_leg
\* line 129
expiry_pnl(h) == h.credit_received - (2 * brokerage_per_leg)

ExitRecord(today, pnl) == [ExitDate |-> today, PnL |-> pnl, Reason |-> "Expiry"]

\* lines 126-132, log_trade returns
Exit(p) ==
    /\ pc[p] = "exit"
    /\ holdings[p] # None
    /\ expiring(df[p].today, holdings[p])
    /\ LET pnl == expiry_pnl(holdings[p]) IN
        /\ cash' = [cash EXCEPT ![p] = @ + pnl]
        /\ log' = log_trade(log, ExitRecord(df[p].today, pnl))
    /\ holdings' = [holdings EXCEPT ![p] = None]
    /\ transitions' = [transitions EXCEPT ![p] = Append(@, "exit")]
    /\ pc' = [pc EXCEPT ![p] = "entry"]
    /\ UNCHANGED <<file, clock, runs, portfolio, df, outcome, before>>

\* lines 126-131, log_trade raises: the exception leaves the run at line 131
ExitLogRaises(p) ==
    /\ pc[p] = "exit"
    /\ holdings[p] # None
    /\ expiring(df[p].today, holdings[p])
    /\ cash' = [cash EXCEPT ![p] = @ + expiry_pnl(holdings[p])]
    /\ pc' = [pc EXCEPT ![p] = "crashed"]
    /\ UNCHANGED <<file, log, clock, runs, portfolio, holdings, df, transitions, outcome, before>>

\* lines 126-127, no position or not yet expiring
NoExit(p) ==
    /\ pc[p] = "exit"
    /\ ~(holdings[p] # None /\ expiring(df[p].today, holdings[p]))
    /\ pc' = [pc EXCEPT ![p] = "entry"]
    /\ UNCHANGED <<file, log, clock, runs, portfolio, cash, holdings, df, transitions, outcome, before>>

------------------------------------------------------------------------------
(* Step 2: signal entry, lines 134-191 *)

\* lines 137-148 without the test of line 146 on the latest bar: a crossover
\* at any bar of the snapshot counts
is_crossover_at_any_bar(rows) ==
    \E i \in 2..Len(rows) :
        /\ rows[i].short_ma > rows[i].long_ma
        /\ rows[i - 1].short_ma <= rows[i - 1].long_ma

\* lines 137-148: a bullish crossover at the latest bar.  shift(1) has no value
\* at the first row and a comparison with it is False.
is_crossover(rows) ==
    LET currently_above(i) == rows[i].short_ma > rows[i].long_ma
        previously_below(i) == i > 1 /\ rows[i - 1].short_ma <= rows[i - 1].long_ma
        crossover_signals == {i \in 1..Len(rows) : currently_above(i) /\ previously_below(i)}
        \* crossover_signals.index[-1], the latest bar with a crossover
        last(S) == CHOOSE i \in S : \A j \in S : j <= i
    IN crossover_signals # {} /\ last(crossover_signals) = Len(rows)

\* line 156
valid_expiries(available_expiries, today) ==
    {exp \in available_expiries :
        days(strptime(exp), today) >= 0 /\ days(strptime(exp), today) <= max_dte}

\* line 159: min of the date strings
target_expiry(valid) == CHOOSE exp \in valid : \A other \in valid : exp <= other

\* round(num / den), halves to the even neighbour
round(num, den) ==
    LET q == num \div den
        r == num % den
    IN IF 2 * r < den THEN q
       ELSE IF 2 * r > den THEN q + 1
       ELSE IF q % 2 = 0 THEN q ELSE q + 1

\* line 164
sell_strike(current_price) ==
    round(current_price * sell_strike_moneyness.num, sell_strike_moneyness.den * 100) * 100
\* line 165 with the spread width added instead of subtracted
buy_strike_above(sell) ==
    round(sell * (spread_width_pct.den + spread_width_pct.num), spread_width_pct.den * 100) * 100
\* line 165
buy_strike(sell) ==
    round(sell * (spread_width_pct.den - spread_width_pct.num), spread_width_pct.den * 100) * 100

\* line 175 with <= for <: a reading at the threshold still counts as calm
position_multiplier_at_most(vix_level) ==
    IF vix_level <= vix_filter_threshold THEN allocation_calm ELSE allocation_fear
\* line 175
position_multiplier(vix_level) ==
    IF vix_level < vix_filter_threshold THEN allocation_calm ELSE allocation_fear
\* line 177
credit_received(sell_price, buy_price, multiplier) ==
    Times((sell_price - buy_price) * lot_size, multiplier)
\* line 181 with the cost of both legs charged in full
entry_cash_full_cost(c, credit, multiplier) ==
    c + credit - 2 * brokerage_per_leg
\* line 181
entry_cash(c, credit, multiplier) ==
    c + credit - Times(2 * brokerage_per_leg, multiplier)

\* the expiries the provider may list, as offsets in days from the latest bar
ExpiryOffsets == {0, 1, max_dte + 1, max_dte + 2}
ExpiryLists(today) == SUBSET {today.day + k : k \in ExpiryOffsets}
\* the put chains the provider may return, strike -> lastPrice, cut down to
\* the strikes the code looks up for this close
LastPrices == {40, 120}
Chains(current_price) ==
    LET sell == sell_strike(current_price) IN
    UNION {[S -> LastPrices] : S \in SUBSET {sell, buy_strike(sell)}}

\* lines 156-179 with >= for > at line 179: a zero credit is accepted
candidate_zero_credit(snapshot, available_expiries, puts) ==
    LET valid == valid_expiries(available_expiries, snapshot.today)
        sell == sell_strike(snapshot.close)
        buy == buy_strike(sell)
        multiplier == position_multiplier(snapshot.vix_close)
    IN IF valid = {} THEN [found |-> FALSE, why |-> "no expiry"]
       ELSE IF ~(sell \in DOMAIN puts /\ buy \in DOMAIN puts)
            THEN [found |-> FALSE, why |-> "no strike"]
       ELSE LET credit == credit_received(puts[sell], puts[buy], multiplier) IN
            IF ~(credit >= 0) THEN [found |-> FALSE, why |-> "no credit"]
            ELSE [found |-> TRUE, multiplier |-> multiplier,
                  holdings |-> [type |-> "dict",
                                entry_date |-> snapshot.today,
                                expiry |-> strptime(target_expiry(valid)),
                                sell_strike |-> sell,
                                buy_strike |-> buy,
                                credit_received |-> credit]]

\* lines 156-179: the spread the code would open, if any
candidate(snapshot, available_expiries, puts) ==
    LET valid == valid_expiries(available_expiries, snapshot.today)
        sell == sell_strike(snapshot.close)
        buy == buy_strike(sell)
        multiplier == position_multiplier(snapshot.vix_close)
    IN IF valid = {} THEN [found |-> FALSE, why |-> "no expiry"]
       ELSE IF ~(sell \in DOMAIN puts /\ buy \in DOMAIN puts)
            THEN [found |-> FALSE, why |-> "no strike"]
       ELSE LET credit == credit_received(puts[sell], puts[buy], multiplier) IN
            IF ~(credit > 0) THEN [found |-> FALSE, why |-> "no credit"]
            ELSE [found |-> TRUE, multiplier |-> multiplier,
                  holdings |-> [type |-> "dict",
                                entry_date |-> snapshot.today,
                                expiry |-> strptime(target_expiry(valid)),
                                sell_strike |-> sell,
                                buy_strike |-> buy,
                                credit_received |-> credit]]

EntryRecord(today, h) ==
    [EntryDate |-> today, Credit |-> h.credit_received,
     SellStrike |-> h.sell_strike, BuyStrike |-> h.buy_strike]

\* line 134 is false: a position is still held
CarryForward(p) ==
    /\ pc[p] = "entry"
    /\ holdings[p] # None
    /\ outcome' = [outcome EXCEPT ![p] = "held"]
    /\ pc' = [pc EXCEPT ![p] = "save"]
    /\ UNCHANGED <<file, log, clock, runs, portfolio, cash, holdings, df, transitions, before>>

\* lines 134-151: flat, and no crossover at the latest bar
NoSignal(p) ==
    /\ pc[p] = "entry"
    /\ holdings[p] = None
    /\ ~is_crossover(df[p].rows)
    /\ outcome' = [outcome EXCEPT ![p] = "no signal"]
    /\ pc' = [pc EXCEPT ![p] = "save"]
    /\ UNCHANGED <<file, log, clock, runs, portfolio, cash, holdings, df, transitions, before>>

\* lines 153-160 without the handler of line 190: the exception leaves the run
EntryFetchRaises_uncaught(p) ==
    /\ pc[p] = "entry"
    /\ holdings[p] = None
    /\ is_crossover(df[p].rows)
    /\ outcome' = [outcome EXCEPT ![p] = "fetch error"]
    /\ pc' = [pc EXCEPT ![p] = "crashed"]
    /\ UNCHANGED <<file, log, clock, runs, portfolio, cash, holdings, df, transitions, before>>

\* lines 153-160, 190-191: fetching the expiries or the chain raises
EntryFetchRaises(p) ==
    /\ pc[p] = "entry"
    /\ holdings[p] = None
    /\ is_crossover(df[p].rows)
    /\ outcome' = [outcome EXCEPT ![p] = "fetch error"]
    /\ pc' = [pc EXCEPT ![p] = "save"]
    /\ UNCHANGED <<file, log, clock, runs, portfolio, cash, holdings, df, transitions, before>>

\* lines 153-179: no expiry in the window, a strike not quoted, or no credit
EntryRejected(p) ==
    /\ pc[p] = "entry"
    /\ holdings[p] = None
    /\ is_crossover(df[p].rows)
    /\ \E why \in {"no expiry", "no strike", "no credit"} :
        /\ {in \in ExpiryLists(df[p].today) \X Chains(df[p].close) :
              LET c == candidate(df[p], in[1], in[2]) IN ~c.found /\ c.why = why} # {}
        /\ outcome' = [outcome EXCEPT ![p] = why]
    /\ pc' = [pc EXCEPT ![p] = "save"]
    /\ UNCHANGED <<file, log, clock, runs, portfolio, cash, holdings, df, transitions, before>>

\* lines 153-189 without the test of line 134: entry is evaluated although a
\* position is held
Enter_over_position(p) ==
    /\ pc[p] = "entry"
    /\ is_crossover(df[p].rows)
    /\ \E available_expiries \in ExpiryLists(df[p].today), puts \in Chains(df[p].close), logged \in BOOLEAN :
        LET c == candidate(df[p], available_expiries, puts) IN
        /\ c.found
        /\ cash' = [cash EXCEPT ![p] = entry_cash(@, c.holdings.credit_received, c.multiplier)]
        /\ holdings' = [holdings EXCEPT ![p] = c.holdings]
        /\ log' = IF logged THEN log_trade(log, EntryRecord(df[p].today, c.holdings)) ELSE log
    /\ transitions' = [transitions EXCEPT ![p] = Append(@, "entry")]
    /\ outcome' = [outcome EXCEPT ![p] = "entered"]
    /\ pc' = [pc EXCEPT ![p] = "save"]
    /\ UNCHANGED <<file, clock, runs, portfolio, df, before>>

\* lines 153-189: the spread is entered; log_trade returns, or raises into
\* the handler of line 190
Enter(p) ==
    /\ pc[p] = "entry"
    /\ holdings[p] = None
    /\ is_crossover(df[p].rows)
    /\ \E available_expiries \in ExpiryLists(df[p].today), puts \in Chains(df[p].close), logged \in BOOLEAN :
        LET c == candidate(df[p], available_expiries, puts) IN
        /\ c.found
        /\ cash' = [cash EXCEPT ![p] = entry_cash(@, c.holdings.credit_received, c.multiplier)]
        /\ holdings' = [holdings EXCEPT ![p] = c.holdings]
        /\ log' = IF logged THEN log_trade(log, EntryRecord(df[p].today, c.holdings)) ELSE log
    /\ transitions' = [transitions EXCEPT ![p] = Append(@, "entry")]
    /\ outcome' = [outcome EXCEPT ![p] = "entered"]
    /\ pc' = [pc EXCEPT ![p] = "save"]
    /\ UNCHANGED <<file, clock, runs, portfolio, df, before>>

------------------------------------------------------------------------------
(* Save, lines 193-196 *)

\* line 196 without lines 194-195: the portfolio as loaded is saved
SaveOpen_as_loaded(p) ==
    /\ pc[p] = "save"
    /\ file' = Empty
    /\ pc' = [pc EXCEPT ![p] = "dump"]
    /\ UNCHANGED <<log, clock, runs, portfolio, cash, holdings, df, transitions, outcome, before>>

\* lines 194-196 and 65-74: open(filename, 'w') truncates the ledger
SaveOpen(p) ==
    /\ pc[p] = "save"
    /\ portfolio' = [portfolio EXCEPT ![p] = [cash |-> cash[p], holdings |-> holdings[p]]]
    /\ file' = Empty
    /\ pc' = [pc EXCEPT ![p] = "dump"]
    /\ UNCHANGED <<log, clock, runs, cash, holdings, df, transitions, outcome, before>>

\* line 75: json.dump writes the state, the run prints its report and returns
Dump(p) ==
    /\ pc[p] = "dump"
    /\ serializable(state_to_save(portfolio[p]))
    /\ file' = write_at_start(dumps(state_to_save(portfolio[p])), file)
    /\ pc' = [pc EXCEPT ![p] = "done"]
    /\ UNCHANGED <<log, clock, runs, portfolio, cash, holdings, df, transitions, outcome, before>>

\* line 75: json.dump raises TypeError part way; the text written so far stays
DumpRaises(p) ==
    /\ pc[p] = "dump"
    /\ ~serializable(state_to_save(portfolio[p]))
    /\ file' = Partial
    /\ pc' = [pc EXCEPT ![p] = "crashed"]
    /\ UNCHANGED <<log, clock, runs, portfolio, cash, holdings, df, transitions, outcome, before>>

Next ==
    \/ \E p \in Procs : Load(p)
    \/ \E p \in Procs : FetchFail(p)
    \/ \E p \in Procs : FetchShort(p)
    \/ \E p \in Procs : FetchOk(p)
    \/ \E p \in Procs : Exit(p)
    \/ \E p \in Procs : ExitLogRaises(p)
    \/ \E p \in Procs : NoExit(p)
    \/ \E p \in Procs : CarryForward(p)
    \/ \E p \in Procs : NoSignal(p)
    \/ \E p \in Procs : EntryFetchRaises(p)
    \/ \E p \in Procs : EntryRejected(p)
    \/ \E p \in Procs : Enter(p)
    \/ \E p \in Procs : SaveOpen(p)
    \/ \E p \in Procs : Dump(p)
    \/ \E p \in Procs : DumpRaises(p)

Spec == Init /\ [][Next]_vars

------------------------------------------------------------------------------
(* One run from the point after its fetch, over a wider market feed *)

\* bars left in the snapshot after dropna: 1..MaxSeries
MaxSeries == 3
WideSnapshots == UNION {[1..n -> Rows] : n \in 1..MaxSeries}
\* closes whose strike ratios fall on and next to a rounding tie: 2500 and
\* 7500 (24.5 and 73.5 hundreds), 5100 and 5200 (the spread collapses up to
\* strike 5000), 15306 (148.5 hundreds for the bought strike)
WideCloses == Closes \cup {2500, 5100, 5200, 7500, 15306}
\* volatility readings below, at and above the threshold
WideVixLevels == VixLevels \cup {vix_filter_threshold - 1, vix_filter_threshold + 1}
WideFeed ==
    [rows : WideSnapshots, today : {Timestamp(d, t) : d \in 0..MaxDay, t \in BarTods},
     close : WideCloses, vix_close : WideVixLevels]
\* a FLAT ledger and an OPEN one
WideFiles == {Json(Number(default_cash), None), Json(Number(default_cash), StoredPosition)}

\* lines 88-124 have run: the ledger is loaded and the latest bar is known
InitWide ==
    /\ file \in WideFiles
    /\ log = << >>
    /\ runs = 1
    /\ pc = [p \in {1} |-> "exit"]
    /\ portfolio = [p \in {1} |-> load_state(file)]
    /\ cash = [p \in {1} |-> load_state(file).cash]
    /\ holdings = [p \in {1} |-> load_state(file).holdings]
    /\ df \in [{1} -> WideFeed]
    /\ clock = df[1].today.day
    /\ transitions = [p \in {1} |-> << >>]
    /\ outcome = [p \in {1} |-> "none"]
    /\ before = [p \in {1} |-> [file |-> file, log |-> log, serial |-> TRUE]]

\* lines 126-196
NextWide ==
    \/ \E p \in Procs : Exit(p)
    \/ \E p \in Procs : ExitLogRaises(p)
    \/ \E p \in Procs : NoExit(p)
    \/ \E p \in Procs : CarryForward(p)
    \/ \E p \in Procs : NoSignal(p)
    \/ \E p \in Procs : EntryFetchRaises(p)
    \/ \E p \in Procs : EntryRejected(p)
    \/ \E p \in Procs : Enter(p)
    \/ \E p \in Procs : SaveOpen(p)
    \/ \E p \in Procs : Dump(p)
    \/ \E p \in Procs : DumpRaises(p)

SpecWide == InitWide /\ [][NextWide]_vars

------------------------------------------------------------------------------
(* Two invocations on the same ledger, started in any order and overlap *)

\* the ledger holds the stored position
InitConc ==
    /\ InitFor({1, 2})
    /\ file = Json(Number(default_cash), StoredPosition)

\* the bars that matter for a race on the ledger: two bars up to the expiry
\* day of the stored position, at close 48980 and vix 15, the last bar
\* crossing over or not
NarrowFeed(snapshot) ==
    /\ snapshot.today.day <= StoredPosition.expiry.day
    /\ snapshot.close = 48980
    /\ snapshot.vix_close = 15
    /\ Len(snapshot.rows) = 2
    /\ snapshot.rows[1].short_ma = 1
    /\ snapshot.rows[2].short_ma \in {1, 3}

\* lines 98-124, the download giving one of these bars
FetchOkNarrow(p) == FetchOk(p) /\ NarrowFeed(df'[p])

NextConc ==
    \/ \E p \in Procs : Load(p)
    \/ \E p \in Procs : LoadOverlapping(p)
    \/ \E p \in Procs : FetchFail(p)
    \/ \E p \in Procs : FetchShort(p)
    \/ \E p \in Procs : FetchOkNarrow(p)
    \/ \E p \in Procs : Exit(p)
    \/ \E p \in Procs : ExitLogRaises(p)
    \/ \E p \in Procs : NoExit(p)
    \/ \E p \in Procs : CarryForward(p)
    \/ \E p \in Procs : NoSignal(p)
    \/ \E p \in Procs : EntryFetchRaises(p)
    \/ \E p \in Procs : EntryRejected(p)
    \/ \E p \in Procs : Enter(p)
    \/ \E p \in Procs : SaveOpen(p)
    \/ \E p \in Procs : Dump(p)
    \/ \E p \in Procs : DumpRaises(p)

SpecConc == InitConc /\ [][NextConc]_vars

------------------------------------------------------------------------------
(* load_state over the ledgers it may find *)

\* a date field of the stored record: ISO text, null, or text that is no date
DateValues == {str(0, 1), str(1, 0), None, String}
FullRecords ==
    {[StoredPosition EXCEPT !.entry_date = e, !.expiry = x] : e \in DateValues, x \in DateValues}
Only(h, keys) == [k \in (DOMAIN h \cap keys) \cup {"type"} |-> h[k]]
\* holdings: null, no such key, a string, and dicts with any subset of the keys
HoldingsValues ==
    {None, Absent, String} \cup {Only(h, keys) : h \in FullRecords, keys \in SUBSET HoldingsKeys}
CashValues == {Number(default_cash - 10000), String, Absent}
LoadFiles ==
    {Missing, Empty, Partial, NonObject}
        \cup {Json(c, h) : c \in CashValues, h \in HoldingsValues}

InitLoad ==
    /\ file \in LoadFiles
    /\ log = << >>
    /\ clock = 0
    /\ runs = 0
    /\ pc = [p \in {1} |-> "idle"]
    /\ portfolio = [p \in {1} |-> default_state]
    /\ cash = [p \in {1} |-> default_state.cash]
    /\ holdings = [p \in {1} |-> None]
    /\ df = [p \in {1} |-> NoData]
    /\ transitions = [p \in {1} |-> << >>]
    /\ outcome = [p \in {1} |-> "none"]
    /\ before = [p \in {1} |-> [file |-> file, log |-> log, serial |-> TRUE]]

\* lines 88-93
NextLoad == \E p \in Procs : Load(p)

SpecLoad == InitLoad /\ [][NextLoad]_vars

------------------------------------------------------------------------------
(* What a run started from, and how far it got *)

\* the portfolio the run loaded
loaded(p) == load_state(before[p].file)
\* the run has a latest bar
Fetched(p) == df[p].rows # << >>
\* the run started OPEN with the latest bar's date on or after the expiry date
StartedExpiring(p) ==
    /\ Fetched(p)
    /\ loaded(p).holdings # None
    /\ df[p].today.day >= loaded(p).holdings.expiry.day
\* the run started OPEN with the latest bar's date before the expiry date
StartedCarrying(p) ==
    /\ Fetched(p)
    /\ loaded(p).holdings # None
    /\ df[p].today.day < loaded(p).holdings.expiry.day
\* step 1 is behind the run and its log_trade, if any, returned
PastExit(p) ==
    /\ pc[p] \in {"entry", "save", "dump", "done", "crashed"}
    /\ pc[p] = "crashed" => outcome[p] # "none"
\* cash after the expiry exit of the loaded position
CashAfterExit(p) ==
    loaded(p).cash + loaded(p).holdings.credit_received - 2 * brokerage_per_leg

------------------------------------------------------------------------------
(* C1 *)

------------------------------------------------------------------------------
(* C3 *)

\* C3: a run that starts OPEN with the latest bar's date before the expiry
\* date makes no transition: entry is not evaluated, the position and cash it
\* computes and persists are the loaded ones, nothing is appended to the trade
\* log and the save does not fail, also with a fresh crossover at the latest bar.
C3_CarryForward ==
    \A p \in Procs :
        StartedCarrying(p) =>
            /\ transitions[p] = << >>
            /\ outcome[p] \in {"none", "held"}
            /\ holdings[p] = loaded(p).holdings
            /\ Keys(holdings[p]) = HoldingsKeys
            /\ cash[p] = loaded(p).cash
            /\ log = before[p].log
            /\ pc[p] # "crashed"
            /\ pc[p] = "done" =>
                /\ file.kind = "json"
                /\ file.cash = Number(loaded(p).cash)
                /\ file.holdings.type = "dict"
                /\ [file.holdings EXCEPT !.entry_date = Timestamp(@.day, @.tod),
                                         !.expiry = Timestamp(@.day, @.tod)]
                   = loaded(p).holdings

\* C3 witness: such a run returned with a fresh crossover at its latest bar
C3_Witness ==
    \E p \in Procs :
        /\ StartedCarrying(p)
        /\ is_crossover(df[p].rows)
        /\ pc[p] = "done"

------------------------------------------------------------------------------
(* C4 *)

\* C4, as claimed: a run computes at most one transition
C4_AtMostOneTransition ==
    \A p \in Procs : Len(transitions[p]) <= 1

\* C4, amended: a run computes at most one expiry exit and at most one signal
\* entry, the exit first, and an entry only while FLAT: either the run loaded
\* FLAT, or the same run has just closed the loaded, expiring position.
C4_ExitThenEntry ==
    \A p \in Procs :
        /\ transitions[p] \in {<< >>, <<"exit">>, <<"entry">>, <<"exit", "entry">>}
        /\ transitions[p] = <<"entry">> => loaded(p).holdings = None
        /\ (transitions[p] # << >> /\ Head(transitions[p]) = "exit") => StartedExpiring(p)

\* C4 witness: a run that made both transitions
C4_Witness ==
    \E p \in Procs : transitions[p] = <<"exit", "entry">>

------------------------------------------------------------------------------
(* C5 *)

\* C5: a run whose market-data fetch fails or comes back empty returns before
\* any transition: the ledger file and the trade log are what they were when
\* the run started, so a position due to expire stays OPEN.
C5_FetchFailureLeavesLedger ==
    \A p \in Procs :
        pc[p] = "aborted" =>
            /\ file = before[p].file
            /\ log = before[p].log
            /\ transitions[p] = << >>

\* C5 witness: a run aborted on the fetch while the ledger holds a position
\* whose expiry date has been reached
C5_Witness ==
    \E p \in Procs :
        /\ pc[p] = "aborted"
        /\ file.kind = "json"
        /\ file.holdings.type = "dict"
        /\ "expiry" \in DOMAIN file.holdings
        /\ "credit_received" \in DOMAIN file.holdings
        /\ clock >= file.holdings.expiry.day

------------------------------------------------------------------------------
(* C2, C8, C9: what save_state leaves in the ledger *)

\* the run has been through save_state
Saved(p) == pc[p] = "done" \/ (pc[p] = "crashed" /\ outcome[p] # "none")

\* two holdings values name the same position: the same five fields, the dates
\* compared as points in time
SamePosition(a, b) ==
    IF a = None \/ b = None THEN a = b
    ELSE /\ a.entry_date.day = b.entry_date.day /\ a.entry_date.tod = b.entry_date.tod
         /\ a.expiry.day = b.expiry.day /\ a.expiry.tod = b.expiry.tod
         /\ a.sell_strike = b.sell_strike
         /\ a.buy_strike = b.buy_strike
         /\ a.credit_received = b.credit_received

\* C2, as claimed: after a run that started FLAT and entered a spread, the
\* persisted portfolio, as the next run loads it, holds exactly that Position
\* (buy_strike <= sell_strike, credit_received > 0) and the run's cash.
C2_EntryPersisted ==
    \A p \in Procs :
        (Saved(p) /\ loaded(p).holdings = None /\ outcome[p] = "entered") =>
            LET next == load_state(file) IN
            /\ next.holdings # None
            /\ next.holdings.buy_strike <= next.holdings.sell_strike
            /\ next.holdings.credit_received > 0
            /\ SamePosition(next.holdings, holdings[p])
            /\ next.cash = cash[p]

\* C8, as claimed: for every portfolio a run hands to save_state, save_state
\* returns and load_state then gives back the same cash and the same Position.
C8_SaveLoadRoundTrip ==
    \A p \in Procs :
        Saved(p) =>
            /\ pc[p] = "done"
            /\ load_state(file).cash = portfolio[p].cash
            /\ SamePosition(load_state(file).holdings, portfolio[p].holdings)

\* C9, as claimed, at the end of a run: the ledger is either what it was
\* before the run or the complete portfolio the run computed.
C9_AtomicWrite ==
    \A p \in Procs :
        pc[p] \in {"done", "aborted", "crashed"} =>
            \/ file = before[p].file
            \/ /\ file.kind = "json"
               /\ load_state(file).cash = cash[p]
               /\ SamePosition(load_state(file).holdings, holdings[p])

------------------------------------------------------------------------------
(* C6 *)

Rejected(p) == outcome[p] \in {"fetch error", "no expiry", "no strike", "no credit"}

\* C6: a run that is FLAT after step 1, sees a fresh crossover and meets a
\* recoverable outcome (error while fetching expiries or chain, no expiry in
\* the window, a strike not quoted, no positive credit) stays FLAT, appends no
\* entry record, leaves cash as step 1 left it, does not fail, and persists
\* the loaded portfolio changed by nothing but the expiry exit of this run.
C6_RecoverableNoEntry ==
    \A p \in Procs :
        Rejected(p) =>
            LET exited == transitions[p] # << >>
                expected == IF exited THEN CashAfterExit(p) ELSE loaded(p).cash
            IN /\ is_crossover(df[p].rows)
               /\ transitions[p] \in {<< >>, <<"exit">>}
               /\ ~exited => loaded(p).holdings = None
               /\ holdings[p] = None
               /\ cash[p] = expected
               /\ Len(log) = Len(before[p].log) + (IF exited THEN 1 ELSE 0)
               /\ \A i \in (Len(before[p].log) + 1)..Len(log) : "EntryDate" \notin DOMAIN log[i]
               /\ pc[p] # "crashed"
               /\ pc[p] = "done" => file = Json(Number(expected), None)

\* C6 witness: a run closed its expiring position, found no positive credit
\* for the signalled spread and returned
C6_Witness ==
    \E p \in Procs :
        /\ outcome[p] = "no credit"
        /\ transitions[p] = <<"exit">>
        /\ pc[p] = "done"

------------------------------------------------------------------------------
(* C7 *)

\* C7: the entry step adds exactly credit_received - 2*brokerage_per_leg*
\* allocation_multiplier to cash, where credit_received = (sell last price -
\* buy last price)*lot_size*allocation_multiplier for the quotes of the two
\* strikes, and the Position records the latest bar's timestamp, the chosen
\* expiry (the earliest listed one that line 156 admits), both strikes and
\* that credit.
C7_EntryEconomics ==
    [][\A p \in Procs :
        (pc[p] = "entry" /\ pc'[p] = "save" /\ outcome'[p] = "entered") =>
            \E available_expiries \in ExpiryLists(df[p].today), puts \in Chains(df[p].close) :
                LET sell == sell_strike(df[p].close)
                    buy == buy_strike(sell)
                    multiplier == IF df[p].vix_close < vix_filter_threshold
                                  THEN allocation_calm ELSE allocation_fear
                    window == {e \in available_expiries :
                                 e - df[p].today.day >= 1 /\ e - df[p].today.day <= max_dte + 1}
                IN /\ sell \in DOMAIN puts /\ buy \in DOMAIN puts
                   /\ window # {}
                   /\ LET credit == ((puts[sell] - puts[buy]) * lot_size * multiplier.num)
                                        \div multiplier.den
                      IN /\ credit > 0
                         /\ cash'[p] = cash[p] + credit
                                       - (2 * brokerage_per_leg * multiplier.num) \div multiplier.den
                         /\ holdings'[p].entry_date = df[p].today
                         /\ holdings'[p].expiry.day \in window
                         /\ \A e \in window : holdings'[p].expiry.day <= e
                         /\ holdings'[p].sell_strike = sell
                         /\ holdings'[p].buy_strike = buy
                         /\ holdings'[p].credit_received = credit
    ]_vars

\* C7 witness: the scenario of the specification.  From cash 100000, at vix 15
\* with quotes 120 and 40 at strikes 48000 and 47500, the entry gave credit
\* 1200 and cash 101160.
C7_Witness ==
    \E p \in Procs :
        /\ outcome[p] = "entered"
        /\ transitions[p] = <<"entry">>
        /\ loaded(p).cash = 100000
        /\ df[p].vix_close = 15
        /\ holdings[p].sell_strike = 48000
        /\ holdings[p].buy_strike = 47500
        /\ holdings[p].credit_received = 1200
        /\ holdings[p].entry_date = df[p].today
        /\ cash[p] = 101160

------------------------------------------------------------------------------
(* C10 *)

\* the holdings record of the ledger lacks credit_received
MissingCredit(f) ==
    /\ f.kind = "json"
    /\ f.holdings.type = "dict"
    /\ "credit_received" \notin DOMAIN f.holdings

\* C10, as claimed: loading a ledger whose holdings record lacks
\* credit_received gives FLAT with the default cash
C10_MissingCreditDefaultCash ==
    \A p \in Procs :
        (pc[p] = "fetch" /\ MissingCredit(before[p].file)) =>
            /\ holdings[p] = None
            /\ cash[p] = 100000

\* C10, amended: loading a ledger whose holdings record lacks credit_received
\* gives FLAT; cash is the ledger's cash when that is a number and the default
\* 100000 otherwise.
C10_MissingCreditLoad ==
    \A p \in Procs :
        (pc[p] = "fetch" /\ MissingCredit(before[p].file)) =>
            /\ holdings[p] = None
            /\ portfolio[p].holdings = None
            /\ cash[p] = IF before[p].file.cash.type = "number"
                         THEN before[p].file.cash.v
                         ELSE 100000

\* C10 witness: such a ledger with a numeric cash other than the default has
\* been loaded
C10_Witness ==
    \E p \in Procs :
        /\ pc[p] = "fetch"
        /\ MissingCredit(before[p].file)
        /\ before[p].file.cash.type = "number"
        /\ cash[p] # 100000

------------------------------------------------------------------------------
(* C11 *)

\* the transition a trade record tells of
RecordKind(trade_record) == IF "Reason" \in DOMAIN trade_record THEN "exit" ELSE "entry"
\* the records the run has appended to the trade log
Appended(p) == SubSeq(log, Len(before[p].log) + 1, Len(log))
\* the transitions of the run that the ledger file reflects
Persisted(p) == IF pc[p] = "done" THEN transitions[p] ELSE << >>

\* C11, as claimed: when a run has returned, the records it appended to the
\* trade log are, in order, one per transition reflected in the persisted
\* portfolio (an 'Expiry' record for an exit, an entry record for an entry),
\* none for a transition that is not persisted, and the earlier records are
\* unchanged, also when log_trade or save_state fails.
C11_RecordPerPersistedTransition ==
    \A p \in Procs :
        pc[p] \in {"done", "aborted", "crashed"} =>
            /\ Len(log) >= Len(before[p].log)
            /\ SubSeq(log, 1, Len(before[p].log)) = before[p].log
            /\ Len(Appended(p)) = Len(Persisted(p))
            /\ \A i \in 1..Len(Appended(p)) : RecordKind(Appended(p)[i]) = Persisted(p)[i]
            /\ \A i \in 1..Len(Appended(p)) :
                   RecordKind(Appended(p)[i]) = "exit" => Appended(p)[i].Reason = "Expiry"

------------------------------------------------------------------------------
(* C12 *)

\* step 2 has evaluated the signal
SignalEvaluated(p) == outcome[p] \notin {"none", "held"}

\* C12: the signal is true iff the snapshot has at least two bars and, for its
\* last bar T and the element before it, short_ma[T] > long_ma[T] and
\* short_ma[T-1] <= long_ma[T-1]; a crossover at an earlier bar gives no signal.
C12_FreshCrossoverOnly ==
    \A p \in Procs :
        SignalEvaluated(p) =>
            LET rows == df[p].rows
                T == Len(rows)
                fresh == /\ T >= 2
                         /\ rows[T].short_ma > rows[T].long_ma
                         /\ rows[T - 1].short_ma <= rows[T - 1].long_ma
            IN (outcome[p] # "no signal") <=> fresh

\* C12 witness: three bars with a crossover at the second and none at the
\* third, and the run saw no signal
C12_Witness ==
    \E p \in Procs :
        /\ outcome[p] = "no signal"
        /\ Len(df[p].rows) = 3
        /\ df[p].rows[1].short_ma <= df[p].rows[1].long_ma
        /\ df[p].rows[2].short_ma > df[p].rows[2].long_ma
        /\ df[p].rows[3].short_ma > df[p].rows[3].long_ma

------------------------------------------------------------------------------
(* C13 *)

\* C13, as claimed: the expiry of an entered position is an available expiry
\* whose days-to-expiry, counted in calendar days from the latest bar's date
\* to the expiry date, lies in [0, max_dte].
C13_CalendarDayWindow ==
    \A p \in Procs :
        outcome[p] = "entered" =>
            /\ holdings[p].expiry.day - df[p].today.day >= 0
            /\ holdings[p].expiry.day - df[p].today.day <= max_dte

------------------------------------------------------------------------------
(* C14 *)

\* C14: for every price of the feed, sell_strike is the multiple of 100
\* nearest to 0.98 * price and buy_strike the multiple of 100 nearest to
\* 0.99 * sell_strike, with buy_strike <= sell_strike; an entered position
\* records exactly this pair.
C14_StrikesOnGrid ==
    \A p \in Procs :
        LET price == df[p].close
            sell == sell_strike(price)
            buy == buy_strike(sell)
            abs(x) == IF x < 0 THEN 0 - x ELSE x
        IN /\ sell % 100 = 0
           /\ buy % 100 = 0
           /\ abs(100 * sell - 98 * price) <= 5000
           /\ abs(100 * buy - 99 * sell) <= 5000
           /\ buy <= sell
           /\ outcome[p] = "entered" =>
                /\ holdings[p].sell_strike = sell
                /\ holdings[p].buy_strike = buy

\* C14 witness: a position entered at close 15306, where 0.99 * sell_strike
\* lies half way between two multiples of 100
C14_Witness ==
    \E p \in Procs :
        /\ outcome[p] = "entered"
        /\ df[p].close = 15306
        /\ holdings[p].sell_strike = 15000
        /\ holdings[p].buy_strike = 14800

------------------------------------------------------------------------------
(* C15 *)

\* C15: an entry at a volatility reading strictly below 20 takes the full
\* credit and the full cost of the two legs, an entry at any other reading,
\* 20 included, half of each; the P&L of an expiry exit is the stored credit
\* less the full cost of the two legs at every reading.
C15_MultiplierAtEntryOnly ==
    \A p \in Procs :
        /\ outcome[p] = "entered" =>
            LET calm == df[p].vix_close < 20
                base == IF transitions[p] = <<"exit", "entry">>
                        THEN CashAfterExit(p) ELSE loaded(p).cash
            IN \E sell_price \in LastPrices, buy_price \in LastPrices :
                LET full == (sell_price - buy_price) * lot_size
                    credit == IF calm THEN full ELSE full \div 2
                    cost == IF calm THEN 2 * brokerage_per_leg ELSE brokerage_per_leg
                IN /\ holdings[p].credit_received = credit
                   /\ cash[p] = base + credit - cost
        /\ (StartedExpiring(p) /\ PastExit(p)) =>
            LET stored == loaded(p).holdings.credit_received
                record == log[Len(before[p].log) + 1]
            IN /\ record.PnL = stored - 2 * brokerage_per_leg
               /\ outcome[p] # "entered" => cash[p] = loaded(p).cash + stored - 2 * brokerage_per_leg

\* C15 witness: at a reading of exactly 20 a run closed the stored position
\* for the unscaled P&L 1160 and entered a new spread for half the credit
\* (600) and half the cost (20)
C15_Witness ==
    \E p \in Procs :
        /\ transitions[p] = <<"exit", "entry">>
        /\ df[p].vix_close = 20
        /\ log[1].PnL = 1160
        /\ holdings[p].credit_received = 600
        /\ cash[p] = 100000 + 1160 + 600 - 20

------------------------------------------------------------------------------
(* C16 *)

\* the ledger's holdings record lacks one of the five fields
Incomplete(f) ==
    /\ f.kind = "json"
    /\ f.holdings.type = "dict"
    /\ ~(HoldingsKeys \subseteq Keys(f.holdings))

\* C16, as claimed: for every ledger, load_state returns a portfolio with
\* numeric cash and holdings that are either absent or carry all five fields
\* with both dates parsed; a record missing any field is discarded whole.
C16_LoadedWellFormed ==
    \A p \in Procs :
        pc[p] = "fetch" =>
            /\ portfolio[p].cash \in Int
            /\ \/ portfolio[p].holdings = None
               \/ /\ Keys(portfolio[p].holdings) = HoldingsKeys
                  /\ portfolio[p].holdings.entry_date.type = "Timestamp"
                  /\ portfolio[p].holdings.expiry.type = "Timestamp"
            /\ Incomplete(before[p].file) => portfolio[p].holdings = None

------------------------------------------------------------------------------
(* C17 *)

\* every run so far started after all earlier runs had returned
Serial == \A p \in Procs : before[p].serial
\* the 'Expiry' records of the trade log
ExpiryRecords == {i \in 1..Len(log) : RecordKind(log[i]) = "exit"}
\* the ledger text of the portfolio run p has computed
OwnLedger(p) ==
    Json(Number(cash[p]),
         IF holdings[p] = None THEN None
         ELSE [holdings[p] EXCEPT !.entry_date = str(@.day, @.tod),
                                  !.expiry = str(@.day, @.tod)])
\* all runs have returned, the stored position was closed twice in the trade
\* log and its P&L is in the persisted cash once
LostUpdate ==
    /\ \A p \in Procs : pc[p] \in Returned
    /\ Cardinality(ExpiryRecords) >= 2
    /\ \A i \in ExpiryRecords : log[i].PnL = StoredPosition.credit_received - 2 * brokerage_per_leg
    /\ file = Json(Number(default_cash + StoredPosition.credit_received - 2 * brokerage_per_leg), None)

------------------------------------------------------------------------------
(* C18 *)

\* C18: every position the entry creates has buy_strike strictly below
\* sell_strike and a positive credit; at a close whose sell_strike is below
\* 5000 the two strikes coincide, and at no close with coinciding strikes is
\* a position entered.
C18_StrictSpread ==
    \A p \in Procs :
        LET sell == sell_strike(df[p].close)
            buy == buy_strike(sell)
        IN /\ outcome[p] = "entered" =>
                /\ holdings[p].buy_strike < holdings[p].sell_strike
                /\ holdings[p].credit_received > 0
           /\ sell < 5000 => buy = sell
           /\ buy = sell => outcome[p] # "entered"

\* C18 witness: on a crossover at close 100 both strikes are 100, both
\* lookups gave the same quote and the candidate was rejected for no credit
C18_Witness ==
    \E p \in Procs :
        /\ df[p].close = 100
        /\ sell_strike(df[p].close) = 100
        /\ buy_strike(100) = 100
        /\ outcome[p] = "no credit"
        /\ holdings[p] = None

------------------------------------------------------------------------------
(* C19 *)

\* C19, as claimed: after a run that started FLAT and entered a spread, the
\* ledger carries the position into a later run, whose expiry exit brings cash
\* to the cash before the entry plus 2*credit_received -
\* 2*brokerage_per_leg*(allocation_multiplier + 1).
C19_LifecycleCash ==
    \A p \in Procs :
        (Saved(p) /\ transitions[p] = <<"entry">>) =>
            LET next == load_state(file)
                credit == holdings[p].credit_received
                multiplier == position_multiplier(df[p].vix_close)
            IN /\ next.holdings # None
               /\ next.cash + expiry_pnl(next.holdings)
                    = loaded(p).cash + 2 * credit
                      - Times(2 * brokerage_per_leg, multiplier) - 2 * brokerage_per_leg

====
